---- MODULE Spec2Model ----
(***************************************************************************)
(* A model of generate.py: the command-line image generator with its       *)
(* model selection, its two provider adapters with their retry loops, the  *)
(* session file and the generate / edit / set-dir / clear commands.        *)
(*                                                                         *)
(* Python values are represented as follows.  An optional value (None or a *)
(* value) is a sequence of length at most one.  A prompt is a string, and  *)
(* Chars gives the sequence of its one-character strings where the program *)
(* inspects it character by character.  A directory is the sequence of the *)
(* components of its absolute path, and a file path is a record of its     *)
(* directory and of the parts of its file name.                            *)
(***************************************************************************)
EXTENDS Integers, Sequences, FiniteSets, TLC

\* Python's None, and a value that is present.
None == <<>>
Some(x) == <<x>>

\* Python's truth test of an optional string or path (None is false).
Truthy(opt) == opt /= None

----------------------------------------------------------------------------
\* Configuration (lines 28-48)

MAX_RETRIES == 3
RETRY_BACKOFF_BASE == 2

\* The aliases of MODELS and the provider model each stands for.
MODELS ==
    [a \in {"nano-banana", "nano-banana-pro", "gpt-image", "gpt-image-1.5",
            "gpt-image-mini"} |->
        CASE a = "nano-banana" -> "google/gemini-2.5-flash-image-preview"
          [] a = "nano-banana-pro" -> "google/gemini-3-pro-image-preview"
          [] a = "gpt-image" -> "gpt-image-1"
          [] a = "gpt-image-1.5" -> "gpt-image-1.5"
          [] a = "gpt-image-mini" -> "gpt-image-1-mini"]

\* model_alias.startswith("gpt-"): the aliases routed to the OpenAI adapter.
StartsWithGpt(alias) == alias \in {"gpt-image", "gpt-image-1.5", "gpt-image-mini"}

----------------------------------------------------------------------------
\* Bounds of the model

\* The most images the commands write.
MaxImages == 2
\* The most files save_image creates when it is called on its own.
MaxSaves == 3
\* The last second of the wall clock.  The seconds are numbered in the order
\* the clock shows them: the program compares timestamps for equality only.
MaxTime == 1

----------------------------------------------------------------------------
\* Prompts

UpperCase == <<"A","B","C","D","E","F","G","H","I","J","K","L","M","N","O","P","Q","R","S","T","U","V","W","X","Y","Z">>
LowerCase == <<"a","b","c","d","e","f","g","h","i","j","k","l","m","n","o","p","q","r","s","t","u","v","w","x","y","z">>

\* str.lower() of one character.
LowerChar(c) ==
    IF \E i \in DOMAIN UpperCase : UpperCase[i] = c
    THEN LowerCase[CHOOSE i \in DOMAIN UpperCase : UpperCase[i] = c]
    ELSE c

\* str.lower() of a string.
RECURSIVE Lower(_)
Lower(s) ==
    IF s = <<>> THEN <<>> ELSE <<LowerChar(Head(s))>> \o Lower(Tail(s))

\* kw in s: kw occurs in s as a contiguous substring.
Contains(s, kw) ==
    \E i \in 1..(Len(s) - Len(kw) + 1) : SubSeq(s, i, i + Len(kw) - 1) = kw

\* any(kw in s for kw in kws)
AnyKeyword(s, kws) == \E k \in DOMAIN kws : Contains(s, kws[k])

\* select_model: keywords that ask for a transparent background, in list order
transparency_keywords ==
    << <<"t","r","a","n","s","p","a","r","e","n","t">>,
       <<"t","r","a","n","s","p","a","r","e","n","c","y">>,
       <<"p","n","g"," ","w","i","t","h"," ","a","l","p","h","a">>,
       <<"n","o"," ","b","a","c","k","g","r","o","u","n","d">>,
       <<"r","e","m","o","v","e"," ","b","a","c","k","g","r","o","u","n","d">>,
       <<"c","u","t","o","u","t">>,
       <<"i","s","o","l","a","t","e","d"," ","o","n">>,
       <<"w","h","i","t","e"," ","b","a","c","k","g","r","o","u","n","d">>,
       <<"c","l","e","a","r"," ","b","a","c","k","g","r","o","u","n","d">> >>

\* select_model: keywords that ask for text rendering
text_keywords ==
    << <<"t","e","x","t">>,
       <<"t","y","p","o","g","r","a","p","h","y">>,
       <<"l","e","t","t","e","r","i","n","g">>,
       <<"w","o","r","d","s">>,
       <<"t","i","t","l","e">>,
       <<"h","e","a","d","i","n","g">>,
       <<"s","i","g","n">>,
       <<"p","o","s","t","e","r"," ","w","i","t","h"," ","t","e","x","t">>,
       <<"l","o","g","o"," ","w","i","t","h"," ","t","e","x","t">>,
       <<"b","a","n","n","e","r">>,
       <<"q","u","o","t","e">>,
       <<"w","r","i","t","i","n","g">> >>

\* select_model: keywords that ask for a draft
fast_keywords ==
    << <<"q","u","i","c","k">>,
       <<"d","r","a","f","t">>,
       <<"r","o","u","g","h">>,
       <<"s","k","e","t","c","h">>,
       <<"f","a","s","t">>,
       <<"t","e","s","t">> >>

\* select_model: keywords that ask for high resolution
highres_keywords ==
    << <<"4","k">>,
       <<"h","i","g","h"," ","r","e","s">>,
       <<"h","i","g","h"," ","r","e","s","o","l","u","t","i","o","n">>,
       <<"d","e","t","a","i","l","e","d">>,
       <<"p","r","i","n","t"," ","q","u","a","l","i","t","y">>,
       <<"l","a","r","g","e"," ","f","o","r","m","a","t">>,
       <<"p","o","s","t","e","r">>,
       <<"w","a","l","l","p","a","p","e","r">> >>


\* The prompts of the model, and the characters of each.
PromptTexts ==
    {"a red circle",
     "make it blue",
     "Transparent sketch",
     "quick logo design",
     "4K poster",
     "rough draft",
     "Poster with TEXT",
     "detailed wallpaper",
     "banner on white background"}
Chars(prompt) ==
    CASE prompt = "a red circle" ->
           <<"a"," ","r","e","d"," ","c","i","r","c","l","e">>
      [] prompt = "make it blue" ->
           <<"m","a","k","e"," ","i","t"," ","b","l","u","e">>
      [] prompt = "Transparent sketch" ->
           <<"T","r","a","n","s","p","a","r","e","n","t"," ","s","k","e","t","c","h">>
      [] prompt = "quick logo design" ->
           <<"q","u","i","c","k"," ","l","o","g","o"," ","d","e","s","i","g","n">>
      [] prompt = "4K poster" ->
           <<"4","K"," ","p","o","s","t","e","r">>
      [] prompt = "rough draft" ->
           <<"r","o","u","g","h"," ","d","r","a","f","t">>
      [] prompt = "Poster with TEXT" ->
           <<"P","o","s","t","e","r"," ","w","i","t","h"," ","T","E","X","T">>
      [] prompt = "detailed wallpaper" ->
           <<"d","e","t","a","i","l","e","d"," ","w","a","l","l","p","a","p","e","r">>
      [] prompt = "banner on white background" ->
           <<"b","a","n","n","e","r"," ","o","n"," ","w","h","i","t","e"," ",
             "b","a","c","k","g","r","o","u","n","d">>

\* select_model with the draft rule tried before the others.
select_model_fast_first(prompt, transparent, high_res, fast, text_heavy) ==
    LET prompt_lower == Lower(Chars(prompt))
    IN  IF fast \/ AnyKeyword(prompt_lower, fast_keywords)
        THEN "nano-banana"
        ELSE IF transparent \/ AnyKeyword(prompt_lower, transparency_keywords)
        THEN "gpt-image-1.5"
        ELSE IF text_heavy \/ AnyKeyword(prompt_lower, text_keywords)
        THEN "gpt-image-1.5"
        ELSE "nano-banana-pro"

\* select_model (lines 51-92): the first matching rule decides.
select_model(prompt, transparent, high_res, fast, text_heavy) ==
    LET prompt_lower == Lower(Chars(prompt))
    IN  IF transparent \/ AnyKeyword(prompt_lower, transparency_keywords)
        THEN "gpt-image-1.5"
        ELSE IF text_heavy \/ AnyKeyword(prompt_lower, text_keywords)
        THEN "gpt-image-1.5"
        ELSE IF fast \/ AnyKeyword(prompt_lower, fast_keywords)
        THEN "nano-banana"
        ELSE IF high_res \/ AnyKeyword(prompt_lower, highres_keywords)
        THEN "nano-banana-pro"
        ELSE "nano-banana-pro"

\* select_model as a table over the prompts of the model and the settings of
\* its flags, worked out once.
select_model_table ==
    [a \in PromptTexts \X BOOLEAN \X BOOLEAN \X BOOLEAN \X BOOLEAN |->
        select_model(a[1], a[2], a[3], a[4], a[5])] @@ <<>>

----------------------------------------------------------------------------
\* Paths and the file system

\* The working directory of the commands, Path.cwd().
Cwd == <<"work", "project">>
\* The user's home directory, for expanduser().
Home == <<"home", "user">>

\* Path.cwd() / "generated-images" (line 341).
DefaultOutputDir == Cwd \o <<"generated-images">>

\* The directories a user names with -o or set-dir, as typed: an absolute
\* path starts with "/", a path under the home directory with "~", any other
\* path is relative to the working directory.
ExplicitDirs == { <<"out">> }

\* Path(d).expanduser().resolve() (lines 336 and 470).
ResolveDir(d) ==
    IF d[1] = "/" THEN Tail(d)
    ELSE IF d[1] = "~" THEN Home \o Tail(d)
    ELSE Cwd \o d

\* The decimal digits of n, most significant first.
RECURSIVE Digits(_)
Digits(n) == IF n < 10 THEN <<n>> ELSE Append(Digits(n \div 10), n % 10)

\* f"{index:03d}": the digits of index, padded with zeros to three.
Format03d(index) ==
    LET d == Digits(index)
    IN  IF Len(d) >= 3 THEN d
        ELSE [i \in 1..(3 - Len(d)) |-> 0] \o d

\* output_dir / f"{prefix}_{timestamp}_{index:03d}.{ext}" (lines 151-153).
ImagePath(dir, prefix, timestamp, index, ext) ==
    [dir |-> dir, prefix |-> prefix, timestamp |-> timestamp,
     counter |-> Format03d(index), ext |-> ext]

\* An image of the user's that exists before any command runs, and the path
\* of an image that does not exist.
UserImage ==
    [dir |-> Home, prefix |-> "photo", timestamp |-> 0, counter |-> <<>>,
     ext |-> "png"]
MissingImage ==
    [dir |-> Home, prefix |-> "gone", timestamp |-> 0, counter |-> <<>>,
     ext |-> "png"]

\* output_dir.glob(f"{prefix}_{timestamp}_*.{ext}") (line 149).
Glob(fs, dir, prefix, timestamp, ext) ==
    {f \in fs : /\ f.dir = dir
                /\ f.prefix = prefix
                /\ f.timestamp = timestamp
                /\ f.ext = ext}

\* An exception: its Python type with the start of its message, for an
\* exception of the retry loop the index of the attempt that raised it (-1
\* otherwise), and the names its message lists.
ExceptionListing(type, attempt, listed) ==
    [type |-> type, attempt |-> attempt, listed |-> listed]
Exception(type, attempt) == ExceptionListing(type, attempt, {})

\* The image payloads a provider returns: plain base64 text, or a data URL
\* with its MIME type; the text decodes as base64 or does not.
Payload(is_data_url, mime, decodes) ==
    [is_data_url |-> is_data_url, mime |-> mime, decodes |-> decodes]
PngBase64 == Payload(FALSE, "", TRUE)
JpegDataUrl == Payload(TRUE, "image/jpeg", TRUE)
BmpDataUrl == Payload(TRUE, "image/bmp", TRUE)
HttpUrl == Payload(FALSE, "", FALSE)

\* ext_map.get(mime_type, "png") (lines 138-145).
ext_map(mime_type) ==
    CASE mime_type = "image/png" -> "png"
      [] mime_type = "image/jpeg" -> "jpg"
      [] mime_type = "image/jpg" -> "jpg"
      [] mime_type = "image/webp" -> "webp"
      [] mime_type = "image/gif" -> "gif"
      [] OTHER -> "png"

\* What the file system does to one save_image call: it works, or creating
\* the directory fails, or opening the output file fails.
FsOutcomes == {"ok", "mkdir fails", "open fails"}

\* save_image with the counter of every file name 001.
save_image_first_counter(base64_data, output_dir, fs, clock, fs_outcome) ==
    IF fs_outcome /= "ok" \/ base64_data = None
    THEN [raised |-> Some(Exception(IF fs_outcome /= "ok" THEN "OSError"
                                    ELSE "AttributeError", -1)),
          path |-> None, files |-> fs]
    ELSE
      LET data == base64_data[1]
          ext == IF data.is_data_url THEN ext_map(data.mime) ELSE "png"
          output_path == ImagePath(output_dir, "gen", clock, 1, ext)
      IN  IF ~data.decodes
          THEN [raised |-> Some(Exception("binascii.Error", -1)),
                path |-> None, files |-> fs \cup {output_path}]
          ELSE [raised |-> None, path |-> Some(output_path),
                files |-> fs \cup {output_path}]

\* save_image (lines 128-158) on the optional payload base64_data, with the
\* files fs present and the clock at second clock: the exception raised or
\* the path written, and the files present afterwards.  The output file is
\* created by open() before the payload is decoded.
save_image(base64_data, output_dir, fs, clock, fs_outcome) ==
    IF fs_outcome = "mkdir fails"
    THEN [raised |-> Some(Exception("OSError", -1)), path |-> None, files |-> fs]
    ELSE IF base64_data = None
    THEN [raised |-> Some(Exception("AttributeError", -1)), path |-> None,
          files |-> fs]
    ELSE
      LET data == base64_data[1]
          ext == IF data.is_data_url THEN ext_map(data.mime) ELSE "png"
          existing == Glob(fs, output_dir, "gen", clock, ext)
          index == Cardinality(existing) + 1
          output_path == ImagePath(output_dir, "gen", clock, index, ext)
      IN  IF fs_outcome = "open fails"
          THEN [raised |-> Some(Exception("OSError", -1)), path |-> None,
                files |-> fs]
          ELSE IF ~data.decodes
          THEN [raised |-> Some(Exception("binascii.Error", -1)),
                path |-> None, files |-> fs \cup {output_path}]
          ELSE [raised |-> None, path |-> Some(output_path),
                files |-> fs \cup {output_path}]

----------------------------------------------------------------------------
\* The session store (lines 95-113)

\* The session a command works on: a dict with the keys current_image,
\* history and output_dir.
Session(current_image, history, output_dir) ==
    [current_image |-> current_image, history |-> history,
     output_dir |-> output_dir]

\* json.dumps(session, indent=2): the text of the session file, the keys in
\* the order of the dict with their values.
json_dumps(session) ==
    << <<"current_image", session.current_image>>,
       <<"history", session.history>>,
       <<"output_dir", session.output_dir>> >>

\* The value of key in the JSON text.
JsonGet(text, key) ==
    text[CHOOSE i \in DOMAIN text : text[i][1] = key][2]

\* json_loads with the history of the text left out of the dict.
json_loads_no_history(text) ==
    Session(JsonGet(text, "current_image"), <<>>, JsonGet(text, "output_dir"))

\* json.loads(text): the dict of the JSON text.
json_loads(text) ==
    Session(JsonGet(text, "current_image"), JsonGet(text, "history"),
            JsonGet(text, "output_dir"))

\* load_session (lines 95-100): the dict of the session file when there is
\* one, and the default session otherwise.  file is the optional text of
\* .image-gen-session.json.
load_session(file) ==
    IF file /= None THEN json_loads(file[1])
    ELSE Session(None, <<>>, None)

\* save_session (lines 103-105): the session file after the write.
save_session(session) == Some(json_dumps(session))

\* clear_session with the file emptied to the default session, not removed.
clear_session_truncate(file) ==
    IF file /= None THEN Some(json_dumps(Session(None, <<>>, None))) ELSE file

\* clear_session (lines 108-113): the session file after the unlink.
clear_session(file) == None

----------------------------------------------------------------------------
\* The provider adapters (lines 161-311)

\* What one requests.post() followed by raise_for_status() does: it returns
\* a success response, or raises a transport failure, or raises for a
\* non-success status; both failures are requests.exceptions.RequestException.
AttemptOutcomes == {"ok", "ConnectionError", "HTTPError"}

\* What an adapter has done: the requests posted, the passes of the retry
\* loop begun, the seconds slept in order, the attempt whose response the
\* result is read from (-1 when none), and the arguments it was called with.
AdapterCall(adapter, endpoint, model, prompt, input_image, loop) ==
    [adapter |-> adapter, endpoint |-> endpoint, model |-> model,
     prompt |-> prompt, input_image |-> input_image,
     attempts |-> loop.attempts, posts |-> loop.posts, waits |-> loop.waits,
     response_attempt |-> loop.response_attempt]

\* The retry loop before its first pass.
NoLoop == [raised |-> None, attempts |-> 0, posts |-> 0, waits |-> <<>>,
           response_attempt |-> -1]

RECURSIVE openrouter_retry(_, _, _)
\* openrouter_retry with the first error kept in last_error, not the last.
openrouter_retry_first_error(attempt, outcomes, waits) ==
    IF outcomes[attempt + 1] = "ok"
    THEN [raised |-> None, attempts |-> attempt + 1, posts |-> attempt + 1,
          waits |-> waits, response_attempt |-> attempt]
    ELSE IF attempt < MAX_RETRIES - 1
    THEN openrouter_retry(attempt + 1, outcomes,
                          Append(waits, RETRY_BACKOFF_BASE ^ attempt))
    ELSE [raised |-> Some(Exception(outcomes[1], 0)), attempts |-> attempt + 1,
          posts |-> attempt + 1, waits |-> waits, response_attempt |-> -1]

\* The retry loop of generate_openrouter (lines 197-218) from pass attempt
\* on, outcomes[attempt + 1] being what the post of that pass does and
\* waits the seconds slept so far.
openrouter_retry(attempt, outcomes, waits) ==
    IF outcomes[attempt + 1] = "ok"
    THEN [raised |-> None, attempts |-> attempt + 1, posts |-> attempt + 1,
          waits |-> waits, response_attempt |-> attempt]
    ELSE
      LET last_error == Exception(outcomes[attempt + 1], attempt)
      IN  IF attempt < MAX_RETRIES - 1
          THEN openrouter_retry(attempt + 1, outcomes,
                                Append(waits, RETRY_BACKOFF_BASE ^ attempt))
          ELSE [raised |-> Some(last_error), attempts |-> attempt + 1,
                posts |-> attempt + 1, waits |-> waits,
                response_attempt |-> -1]

\* The first image of a chat response, message["images"][0]: a string, or a
\* dict with some of the keys image_url (itself a dict with the key url),
\* url, b64_json and data.
ImageString(p) ==
    [is_dict |-> FALSE, str |-> Some(p), image_url |-> None, url |-> None,
     b64_json |-> None, data |-> None]
ImageDict(image_url, url, b64_json, data) ==
    [is_dict |-> TRUE, str |-> None, image_url |-> image_url, url |-> url,
     b64_json |-> b64_json, data |-> data]

\* The body of a chat response: whether result["choices"][0]["message"] is
\* there, the list under the message's key images (None when the key is
\* absent), and the message's content: a list of parts or a string.
ChatBody(has_message, images, content_is_list, content) ==
    [has_message |-> has_message, images |-> images,
     content_is_list |-> content_is_list, content |-> content]

\* One part of a content list.
ContentPart(type, url) == [type |-> type, url |-> url]

\* a or b, for optional values.
Or(a, b) == IF Truthy(a) THEN a ELSE b

\* The first part of type image_url in a content list, if any (lines 237-239).
FirstImagePart(content) ==
    IF \E i \in DOMAIN content : content[i].type = "image_url"
    THEN LET i == CHOOSE i \in DOMAIN content :
                    /\ content[i].type = "image_url"
                    /\ \A j \in 1..(i - 1) : content[j].type /= "image_url"
         IN  Some(content[i].url)
    ELSE None

\* message.keys() of a chat response (line 241).
MessageKeys(body) ==
    {"role", "content"} \cup (IF body.images /= None THEN {"images"} ELSE {})

\* The extraction of the image from a chat response (lines 220-241): the
\* exception raised, or the value returned, which is an optional payload.
openrouter_extract(body) ==
    IF ~body.has_message
    THEN [raised |-> Some(Exception("KeyError", -1)), value |-> None]
    ELSE IF body.images /= None /\ body.images[1] /= <<>>
    THEN LET img == body.images[1][1]
         IN  IF img.is_dict
             THEN IF img.image_url /= None
                  THEN [raised |-> None, value |-> img.image_url]
                  ELSE [raised |-> None,
                        value |-> Or(img.url, Or(img.b64_json, img.data))]
             ELSE [raised |-> None, value |-> img.str]
    ELSE IF body.content_is_list /\ FirstImagePart(body.content) /= None
    THEN [raised |-> None, value |-> FirstImagePart(body.content)[1]]
    ELSE [raised |-> Some(ExceptionListing("ValueError: No image in response",
                                           -1, MessageKeys(body))),
          value |-> None]

\* generate_openrouter (lines 161-241).  env is what the environment does to
\* this call: whether OPENROUTER_API_KEY is set, what each post does, and the
\* body of the success response; fs are the files that exist.
generate_openrouter(prompt, model, input_image, env, fs) ==
    LET call(loop) ==
            AdapterCall("openrouter", "chat/completions", model, prompt,
                        input_image, loop)
    IN  IF ~env.key
        THEN [raised |-> Some(Exception("ValueError: OPENROUTER_API_KEY not set", -1)),
              value |-> None, call |-> call(NoLoop)]
        ELSE IF Truthy(input_image) /\ input_image[1] \notin fs
        THEN [raised |-> Some(Exception("FileNotFoundError", -1)),
              value |-> None, call |-> call(NoLoop)]
        ELSE
          LET loop == openrouter_retry(0, env.outcomes, <<>>)
              got == openrouter_extract(env.body)
          IN  IF loop.raised /= None
              THEN [raised |-> loop.raised, value |-> None, call |-> call(loop)]
              ELSE [raised |-> got.raised, value |-> got.value,
                    call |-> call(loop)]

RECURSIVE openai_retry(_, _, _, _)
\* openai_retry with a wait that grows linearly with the attempt.
openai_retry_linear_backoff(attempt, outcomes, waits, input_opens) ==
    IF ~input_opens
    THEN [raised |-> Some(Exception("FileNotFoundError", attempt)),
          attempts |-> attempt + 1, posts |-> attempt, waits |-> waits,
          response_attempt |-> -1]
    ELSE IF outcomes[attempt + 1] = "ok"
    THEN [raised |-> None, attempts |-> attempt + 1, posts |-> attempt + 1,
          waits |-> waits, response_attempt |-> attempt]
    ELSE IF attempt < MAX_RETRIES - 1
    THEN openai_retry(attempt + 1, outcomes,
                      Append(waits, RETRY_BACKOFF_BASE * (attempt + 1)),
                      input_opens)
    ELSE [raised |-> Some(Exception(outcomes[attempt + 1], attempt)),
          attempts |-> attempt + 1, posts |-> attempt + 1, waits |-> waits,
          response_attempt |-> -1]

\* openai_retry with every exception caught, the OSError of open() too.
openai_retry_catch_all(attempt, outcomes, waits, input_opens) ==
    IF input_opens /\ outcomes[attempt + 1] = "ok"
    THEN [raised |-> None, attempts |-> attempt + 1, posts |-> attempt + 1,
          waits |-> waits, response_attempt |-> attempt]
    ELSE IF attempt < MAX_RETRIES - 1
    THEN openai_retry(attempt + 1, outcomes,
                      Append(waits, RETRY_BACKOFF_BASE ^ attempt), input_opens)
    ELSE [raised |-> Some(Exception(IF input_opens THEN outcomes[attempt + 1]
                                    ELSE "FileNotFoundError", attempt)),
          attempts |-> attempt + 1,
          posts |-> IF input_opens THEN attempt + 1 ELSE 0,
          waits |-> waits, response_attempt |-> -1]

\* The retry loop of generate_openai (lines 262-307) from pass attempt on;
\* input_opens tells whether the pass can open the input image it uploads
\* (TRUE when there is none).  An OSError of open() is no RequestException.
openai_retry(attempt, outcomes, waits, input_opens) ==
    IF ~input_opens
    THEN [raised |-> Some(Exception("FileNotFoundError", attempt)),
          attempts |-> attempt + 1, posts |-> attempt, waits |-> waits,
          response_attempt |-> -1]
    ELSE IF outcomes[attempt + 1] = "ok"
    THEN [raised |-> None, attempts |-> attempt + 1, posts |-> attempt + 1,
          waits |-> waits, response_attempt |-> attempt]
    ELSE
      LET last_error == Exception(outcomes[attempt + 1], attempt)
      IN  IF attempt < MAX_RETRIES - 1
          THEN openai_retry(attempt + 1, outcomes,
                            Append(waits, RETRY_BACKOFF_BASE ^ attempt),
                            input_opens)
          ELSE [raised |-> Some(last_error), attempts |-> attempt + 1,
                posts |-> attempt + 1, waits |-> waits,
                response_attempt |-> -1]

\* The body of an image-API response: whether result["data"][0]["b64_json"]
\* is there, and the payload under it.
ImageApiBody(has_data, b64_json) == [has_data |-> has_data, b64_json |-> b64_json]

\* generate_openai (lines 244-311), env and fs as for generate_openrouter.
generate_openai(prompt, model, input_image, env, fs) ==
    LET endpoint == IF Truthy(input_image) THEN "images/edits"
                    ELSE "images/generations"
        call(loop) ==
            AdapterCall("openai", endpoint, model, prompt, input_image, loop)
    IN  IF ~env.key
        THEN [raised |-> Some(Exception("ValueError: OPENAI_API_KEY not set", -1)),
              value |-> None, call |-> call(NoLoop)]
        ELSE
          LET input_opens == ~Truthy(input_image) \/ input_image[1] \in fs
              loop == openai_retry(0, env.outcomes, <<>>, input_opens)
          IN  IF loop.raised /= None
              THEN [raised |-> loop.raised, value |-> None, call |-> call(loop)]
              ELSE IF ~env.body.has_data
              THEN [raised |-> Some(Exception("KeyError", -1)), value |-> None,
                    call |-> call(loop)]
              ELSE [raised |-> None, value |-> Some(env.body.b64_json),
                    call |-> call(loop)]

----------------------------------------------------------------------------
\* The orchestrator (lines 314-374)

\* The second the clock shows after time.sleep() has slept the seconds of
\* waits (line 216): a later one if it has slept at all.
AfterSleep(clock, waits) == IF waits = <<>> THEN clock ELSE clock + 1

\* resolve_alias with --fast not handed to select_model.
resolve_alias_ignores_fast(prompt, model_alias, image_size, transparent, fast) ==
    IF model_alias = None \/ model_alias = Some("auto")
    THEN select_model_table[<<prompt, transparent, image_size = Some("4K"),
                              FALSE, FALSE>>]
    ELSE model_alias[1]

\* resolve_alias with an alias MODELS does not have replaced by select_model's.
resolve_alias_lenient(prompt, model_alias, image_size, transparent, fast) ==
    IF model_alias = None \/ model_alias = Some("auto")
          \/ model_alias[1] \notin DOMAIN MODELS
    THEN select_model_table[<<prompt, transparent, image_size = Some("4K"),
                              fast, FALSE>>]
    ELSE model_alias[1]

\* The alias generate works with (lines 321-325): the one given, or the one
\* select_model picks when none or "auto" is given.
resolve_alias(prompt, model_alias, image_size, transparent, fast) ==
    IF model_alias = None \/ model_alias = Some("auto")
    THEN select_model_table[<<prompt, transparent, image_size = Some("4K"),
                              fast, FALSE>>]
    ELSE model_alias[1]

\* resolve_out_path with the session's directory taken before the one of -o.
resolve_out_path_session_first(output_dir, session) ==
    IF Truthy(session.output_dir) THEN session.output_dir[1]
    ELSE IF Truthy(output_dir) THEN ResolveDir(output_dir[1])
    ELSE DefaultOutputDir

\* resolve_out_path with the working directory itself as the default.
resolve_out_path_cwd(output_dir, session) ==
    IF Truthy(output_dir) THEN ResolveDir(output_dir[1])
    ELSE IF Truthy(session.output_dir) THEN session.output_dir[1]
    ELSE Cwd

\* The output directory generate writes to (lines 334-342).
resolve_out_path(output_dir, session) ==
    IF Truthy(output_dir) THEN ResolveDir(output_dir[1])
    ELSE IF Truthy(session.output_dir) THEN session.output_dir[1]
    ELSE DefaultOutputDir

\* remember_out_path with the directory of -o not written into the session.
remember_out_path_default_only(output_dir, session, out_path) ==
    IF ~Truthy(output_dir) /\ ~Truthy(session.output_dir)
    THEN [session EXCEPT !.output_dir = Some(out_path)]
    ELSE session

\* The session dict after the output directory is resolved (lines 337, 342).
remember_out_path(output_dir, session, out_path) ==
    IF Truthy(output_dir) \/ ~Truthy(session.output_dir)
    THEN [session EXCEPT !.output_dir = Some(out_path)]
    ELSE session

\* resolve_input with the session's current image taken before -i.
resolve_input_current_first(input_image, session) ==
    IF Truthy(session.current_image) THEN session.current_image
    ELSE input_image

\* The input image handed to the adapter (lines 344-346).
resolve_input(input_image, session) ==
    IF input_image = None /\ Truthy(session.current_image)
    THEN session.current_image
    ELSE input_image

\* The record appended to the history (lines 365-371).
GenerationRecord(prompt, model_alias, input_image, saved_path, clock) ==
    [prompt |-> prompt, model |-> model_alias, input |-> input_image,
     output |-> saved_path, timestamp |-> clock]

\* update_session with current_image set by the first generation only.
update_session_first_current(session, prompt, model_alias, input_image, saved_path, clock) ==
    [session EXCEPT
        !.current_image = IF Truthy(@) THEN @ ELSE Some(saved_path),
        !.history = Append(@, GenerationRecord(prompt, model_alias,
                                               input_image, saved_path, clock))]

\* update_session with the new record put first in the history.
update_session_newest_first(session, prompt, model_alias, input_image, saved_path, clock) ==
    [session EXCEPT
        !.current_image = Some(saved_path),
        !.history = <<GenerationRecord(prompt, model_alias, input_image,
                                       saved_path, clock)>> \o @]

\* The session dict after a generation (lines 363-371).
update_session(session, prompt, model_alias, input_image, saved_path, clock) ==
    [session EXCEPT
        !.current_image = Some(saved_path),
        !.history = Append(@, GenerationRecord(prompt, model_alias,
                                               input_image, saved_path, clock))]

\* What a call of generate leaves behind: the exception raised or the value
\* returned, the session file, the files, the clock, and the adapter call
\* made, if any.
Outcome(raised, value, file, fs, clock, call) ==
    [raised |-> raised, value |-> value, file |-> file, files |-> fs,
     clock |-> clock, call |-> call]

\* persist with the session saved whether the generation succeeded or not.
persist_always(file, session, succeeded) == save_session(session)

\* persist with the history read again from the session file before the
\* write, and the new record put at its end.
persist_merge(file, session, succeeded) ==
    IF succeeded
    THEN save_session([session EXCEPT
                          !.history = Append(load_session(file).history,
                                             session.history[Len(session.history)])])
    ELSE file

\* The session file once generate is through: written by save_session at
\* the end of a generation (line 372), and as it was in every other case.
persist(file, session, succeeded) ==
    IF succeeded THEN save_session(session) ELSE file

\* generate (lines 314-374) with the session file, the files fs and the
\* clock as they are when it is called.  env is what the environment does
\* during the call: env.key, env.outcomes and env.body go to the adapter, and
\* env.fs is what the file system does to save_image.
generate(prompt, model_alias, input_image, output_dir, image_size, transparent, fast, file, fs, clock, env) ==
    LET session == load_session(file)
        alias == resolve_alias(prompt, model_alias, image_size, transparent, fast)
    IN  IF alias \notin DOMAIN MODELS
        THEN Outcome(Some(ExceptionListing("ValueError: Unknown model", -1,
                                           DOMAIN MODELS)),
                     None, persist(file, session, FALSE), fs, clock, None)
        ELSE
          LET model == MODELS[alias]
              is_openai == StartsWithGpt(alias)
              out_path == resolve_out_path(output_dir, session)
              session1 == remember_out_path(output_dir, session, out_path)
              input == resolve_input(input_image, session1)
              sent == IF is_openai
                      THEN generate_openai(prompt, model, input, env, fs)
                      ELSE generate_openrouter(prompt, model, input, env, fs)
              later == AfterSleep(clock, sent.call.waits)
          IN  IF sent.raised /= None
              THEN Outcome(sent.raised, None, persist(file, session1, FALSE),
                           fs, later, Some(sent.call))
              ELSE
                LET saved == save_image(sent.value, out_path, fs, later, env.fs)
                IN  IF saved.raised /= None
                    THEN Outcome(saved.raised, None,
                                 persist(file, session1, FALSE), saved.files,
                                 later, Some(sent.call))
                    ELSE
                      LET session2 ==
                            update_session(session1, prompt, alias, input,
                                           saved.path[1], later)
                      IN  Outcome(None, saved.path,
                                  persist(file, session2, TRUE), saved.files,
                                  later, Some(sent.call))

\* The set-dir command (lines 468-472): the session file afterwards.
set_dir(directory, file) ==
    LET session == load_session(file)
    IN  save_session([session EXCEPT
                         !.output_dir = Some(ResolveDir(directory))])

----------------------------------------------------------------------------
\* The state

VARIABLES
    sessionFile,  \* the text of .image-gen-session.json, None when no file
    files,        \* the image files that exist
    now,          \* the second the wall clock shows
    run,          \* the command that has just run and what it did; None at
                  \* the shell prompt, before the next command
    procs         \* the invocations of generate that run side by side: of
                  \* each its position in generate and what it holds in memory

vars == <<sessionFile, files, now, run, procs>>

\* The invocations that run side by side.
Procs == {1, 2}

\* An invocation that has not begun.
Idle ==
    [pc |-> "idle", prompt |-> "", alias |-> "", loaded |-> None,
     session |-> Session(None, <<>>, None), out_path |-> <<>>, input |-> None,
     payload |-> None, path |-> None, raised |-> None]

\* What is seen of a command once its process has exited: the command and
\* its arguments with its flags, the session file before it, the exception
\* it raised or the path it printed, and the adapter call it made; of an
\* adapter called on its own, what the environment did and the payload
\* returned.
Run(cmd, prompt, model_alias, input_image, output_dir, flags, before, raised, value, call, env, payload) ==
    [cmd |-> cmd, prompt |-> prompt, model_alias |-> model_alias,
     input_image |-> input_image, output_dir |-> output_dir,
     flags |-> flags, before |-> before, raised |-> raised, value |-> value, call |-> call,
     env |-> env, payload |-> payload]

\* What the environment does during one call: see generate.
Env(key, outcomes, body, fs) ==
    [key |-> key, outcomes |-> outcomes, body |-> body, fs |-> fs]

\* Every way MAX_RETRIES posts can go.
AttemptSeqs == [1..MAX_RETRIES -> AttemptOutcomes]
\* The ways the posts go while the commands run: at once, and never.
CommandAttemptSeqs ==
    { <<"ok", "ok", "ok">>,
      <<"HTTPError", "ConnectionError", "ConnectionError">> }

\* The payloads of the responses.
Payloads == {PngBase64, JpegDataUrl, BmpDataUrl, HttpUrl}

\* The chat response bodies: each shape of lines 223-241 with each payload.
ChatBodies ==
    UNION { { ChatBody(TRUE, Some(<<ImageString(p)>>), FALSE, <<>>),
              ChatBody(TRUE, Some(<<ImageDict(Some(p), None, None, None)>>),
                       FALSE, <<>>),
              ChatBody(TRUE, Some(<<ImageDict(None, Some(p), None, None)>>),
                       FALSE, <<>>),
              ChatBody(TRUE, Some(<<ImageDict(None, None, Some(p), None)>>),
                       FALSE, <<>>),
              ChatBody(TRUE, Some(<<ImageDict(None, None, None, Some(p))>>),
                       FALSE, <<>>),
              ChatBody(TRUE, Some(<<>>), TRUE,
                       <<ContentPart("text", None),
                         ContentPart("image_url", Some(p))>>),
              ChatBody(TRUE, None, TRUE, <<ContentPart("image_url", Some(p))>>)
            } : p \in Payloads }
    \cup { ChatBody(FALSE, None, FALSE, <<>>),
           ChatBody(TRUE, Some(<<ImageDict(None, None, None, None)>>), FALSE, <<>>),
           ChatBody(TRUE, None, TRUE, <<ContentPart("text", None)>>),
           ChatBody(TRUE, None, FALSE, <<>>) }

\* The chat response bodies the commands meet.
CommandChatBodies ==
    { ChatBody(TRUE, Some(<<ImageDict(Some(JpegDataUrl), None, None, None)>>),
               FALSE, <<>>),
      ChatBody(TRUE, Some(<<ImageDict(None, None, None, None)>>), FALSE, <<>>),
      ChatBody(TRUE, None, FALSE, <<>>) }

\* The image-API response bodies.
ImageApiBodies ==
    { ImageApiBody(TRUE, p) : p \in Payloads } \cup { ImageApiBody(FALSE, PngBase64) }
CommandImageApiBodies ==
    { ImageApiBody(TRUE, PngBase64), ImageApiBody(TRUE, HttpUrl),
      ImageApiBody(FALSE, PngBase64) }

\* The environments of a call whose posts go as in seqs and whose success
\* response has a body of bodies.  What is never looked at is left out: the
\* posts when the key is missing, the body when no post succeeds.
Envs(seqs, bodies, fs_outcomes) ==
    LET any == CHOOSE b \in bodies : TRUE
        ok == [i \in 1..MAX_RETRIES |-> "ok"]
    IN  { Env(FALSE, ok, any, "ok") }
        \cup { Env(TRUE, o, any, "ok") :
                 o \in {q \in seqs : \A i \in DOMAIN q : q[i] /= "ok"} }
        \cup { Env(TRUE, o, b, f) :
                 o \in {q \in seqs : \E i \in DOMAIN q : q[i] = "ok"},
                 b \in bodies, f \in fs_outcomes }

\* What the file system does to the commands.
CommandFsOutcomes == {"ok", "open fails"}

\* The environments of a command that works with alias.
CommandEnvs(alias) ==
    IF alias \notin DOMAIN MODELS
    THEN { Env(FALSE, <<>>, <<>>, "ok") }
    ELSE IF StartsWithGpt(alias)
    THEN Envs(CommandAttemptSeqs, CommandImageApiBodies, CommandFsOutcomes)
    ELSE Envs(CommandAttemptSeqs, CommandChatBodies, CommandFsOutcomes)

\* The prompts of the commands: select_model sends the first to the chat
\* provider and the second to the image API.
Prompts == {"a red circle", "Transparent sketch"}

\* The model given to generate: none (auto: select_model picks an alias of
\* either provider), and an alias that MODELS does not have.
ModelArgs == {None, Some("foo")}

\* The flags --transparent, --fast and --image-size of the commands.
FlagArgs ==
    { [transparent |-> FALSE, fast |-> FALSE, image_size |-> None],
      [transparent |-> FALSE, fast |-> FALSE, image_size |-> Some("4K")] }

\* -o of the commands: absent, or a directory.
OutputArgs == {None} \cup { Some(d) : d \in ExplicitDirs }

\* -i of the edit command: absent, an image that exists, one that does not.
InputArgs == {None, Some(UserImage), Some(MissingImage)}

Init ==
    /\ sessionFile = None
    /\ files = {UserImage}
    /\ now = 0
    /\ run = None
    /\ procs = [p \in Procs |-> Idle]

\* The images the commands have written.
GeneratedImages == files \ {UserImage}

\* A call of generate by a command (lines 438-460), and the exit of its
\* process.
Invoke(cmd, prompt, model_alias, input_image, output_dir, flags) ==
    LET alias == resolve_alias(prompt, model_alias, flags.image_size,
                               flags.transparent, flags.fast)
    IN  \E env \in CommandEnvs(alias) :
          LET out == generate(prompt, model_alias, input_image, output_dir,
                              flags.image_size, flags.transparent, flags.fast,
                              sessionFile, files, now, env)
          IN  /\ out.clock <= MaxTime
              /\ sessionFile' = out.file
              /\ files' = out.files
              /\ now' = out.clock
              /\ run' = Some(Run(cmd, prompt, model_alias, input_image,
                                 output_dir, Some(flags), sessionFile,
                                 out.raised, out.value, out.call, None, None))
              /\ UNCHANGED procs

\* main, command generate (lines 438-449): no input image is passed.
CmdGenerate ==
    /\ run = None
    /\ Cardinality(GeneratedImages) < MaxImages
    /\ \E prompt \in Prompts, model_alias \in ModelArgs,
          output_dir \in OutputArgs, flags \in FlagArgs :
          Invoke("generate", prompt, model_alias, None, output_dir, flags)

\* main, command edit (lines 451-460): no image size is passed.
CmdEdit ==
    /\ run = None
    /\ Cardinality(GeneratedImages) < MaxImages
    /\ \E prompt \in Prompts, model_alias \in ModelArgs,
          input_image \in InputArgs, output_dir \in OutputArgs,
          flags \in {f \in FlagArgs : f.image_size = None} :
          Invoke("edit", prompt, model_alias, input_image, output_dir, flags)

\* main, command clear (lines 465-466).
CmdClear ==
    /\ run = None
    /\ sessionFile' = clear_session(sessionFile)
    /\ run' = Some(Run("clear", <<>>, None, None, None, None, sessionFile, None,
                       None, None, None, None))
    /\ UNCHANGED <<files, now, procs>>

\* main, command set-dir (lines 468-472).
CmdSetDir ==
    /\ run = None
    /\ \E directory \in ExplicitDirs :
          /\ sessionFile' = set_dir(directory, sessionFile)
          /\ run' = Some(Run("set-dir", <<>>, None, None, Some(directory),
                             None, sessionFile, None, None, None, None, None))
    /\ UNCHANGED <<files, now, procs>>

\* main, command status (lines 462-463, 377-388): nothing is written.
CmdStatus ==
    /\ run = None
    /\ run' = Some(Run("status", <<>>, None, None, None, None, sessionFile, None,
                       None, None, None, None))
    /\ UNCHANGED <<sessionFile, files, now, procs>>

\* The process has exited and the shell prompts for the next command.
ShellPrompt ==
    /\ run /= None
    /\ run' = None
    /\ UNCHANGED <<sessionFile, files, now, procs>>

\* Time passes: the clock shows the next second.
Tick ==
    /\ run = None
    /\ now < MaxTime
    /\ now' = now + 1
    /\ UNCHANGED <<sessionFile, files, run, procs>>

Next ==
    \/ CmdGenerate
    \/ CmdEdit
    \/ CmdClear
    \/ CmdSetDir
    \/ CmdStatus
    \/ ShellPrompt
    \/ Tick

Spec == Init /\ [][Next]_vars

----------------------------------------------------------------------------
\* The adapters on their own: each is called with every way the posts can go
\* and every body of the success response.

\* The input image of an adapter call: none, an image that exists, one that
\* does not.
AdapterInputs == {None, Some(UserImage), Some(MissingImage)}

\* generate_openrouter is called (lines 161-241).
CallOpenRouter ==
    /\ run = None
    /\ \E prompt \in Prompts, input_image \in AdapterInputs,
          env \in Envs(AttemptSeqs, ChatBodies, {"ok"}) :
          LET sent == generate_openrouter(prompt, MODELS["nano-banana-pro"],
                                          input_image, env, files)
          IN  run' = Some(Run("generate_openrouter", prompt, None, input_image,
                              None, None, sessionFile, sent.raised, None,
                              Some(sent.call), Some(env), sent.value))
    /\ UNCHANGED <<sessionFile, files, now, procs>>

\* generate_openai is called (lines 244-311).
CallOpenAI ==
    /\ run = None
    /\ \E prompt \in Prompts, input_image \in AdapterInputs,
          env \in Envs(AttemptSeqs, ImageApiBodies, {"ok"}) :
          LET sent == generate_openai(prompt, MODELS["gpt-image-1.5"],
                                      input_image, env, files)
          IN  run' = Some(Run("generate_openai", prompt, None, input_image,
                              None, None, sessionFile, sent.raised, None,
                              Some(sent.call), Some(env), sent.value))
    /\ UNCHANGED <<sessionFile, files, now, procs>>

NextAdapters ==
    \/ CallOpenRouter
    \/ CallOpenAI
    \/ ShellPrompt

SpecAdapters == Init /\ [][NextAdapters]_vars

----------------------------------------------------------------------------
\* Two generate commands side by side in one working directory: each is a
\* process of its own, and a step of one is what it does between two moments
\* at which the other can read or write the session file and the output
\* directory.

\* The file name save_image picks from the files it finds (lines 132-153).
save_image_path(data, output_dir, fs, clock) ==
    LET ext == IF data.is_data_url THEN ext_map(data.mime) ELSE "png"
        existing == Glob(fs, output_dir, "gen", clock, ext)
        index == Cardinality(existing) + 1
    IN  ImagePath(output_dir, "gen", clock, index, ext)

\* generate reads the session file and resolves its arguments (lines
\* 319-346); the command is generate <prompt>, with no option.
Load(p) ==
    /\ procs[p].pc = "idle"
    /\ \E prompt \in Prompts :
          LET session == load_session(sessionFile)
              alias == resolve_alias(prompt, None, None, FALSE, FALSE)
              out_path == resolve_out_path(None, session)
              session1 == remember_out_path(None, session, out_path)
              input == resolve_input(None, session1)
          IN  procs' = [procs EXCEPT ![p] =
                          [@ EXCEPT !.pc = "calling", !.prompt = prompt,
                                    !.alias = alias,
                                    !.loaded = Some(session),
                                    !.session = session1,
                                    !.out_path = out_path, !.input = input]]
    /\ UNCHANGED <<sessionFile, files, now, run>>

\* generate calls the adapter of its alias (lines 353-357).
Send(p) ==
    /\ procs[p].pc = "calling"
    /\ \E env \in {e \in CommandEnvs(procs[p].alias) : e.fs = "ok"} :
          LET me == procs[p]
              sent == IF StartsWithGpt(me.alias)
                      THEN generate_openai(me.prompt, MODELS[me.alias],
                                           me.input, env, files)
                      ELSE generate_openrouter(me.prompt, MODELS[me.alias],
                                               me.input, env, files)
              later == AfterSleep(now, sent.call.waits)
          IN  /\ later <= MaxTime
              /\ now' = later
              /\ procs' = [procs EXCEPT ![p] =
                    IF sent.raised /= None
                    THEN [@ EXCEPT !.pc = "failed", !.raised = sent.raised]
                    ELSE [@ EXCEPT !.pc = "naming", !.payload = sent.value]]
    /\ UNCHANGED <<sessionFile, files, run>>

\* save_image reads the clock, lists the directory and picks the file name
\* (lines 130-153).
Name(p) ==
    /\ procs[p].pc = "naming"
    /\ LET me == procs[p]
       IN  procs' = [procs EXCEPT ![p] =
             IF me.payload = None
             THEN [me EXCEPT !.pc = "failed",
                             !.raised = Some(Exception("AttributeError", -1))]
             ELSE [me EXCEPT !.pc = "writing",
                             !.path = Some(save_image_path(me.payload[1],
                                                           me.out_path, files,
                                                           now))]]
    /\ UNCHANGED <<sessionFile, files, now, run>>

\* save_image opens the file for writing and writes the decoded payload
\* (lines 155-158).
Write(p) ==
    /\ procs[p].pc = "writing"
    /\ files' = files \cup {procs[p].path[1]}
    /\ LET me == procs[p]
       IN  procs' = [procs EXCEPT ![p] =
             IF me.payload[1].decodes
             THEN [me EXCEPT !.pc = "written"]
             ELSE [me EXCEPT !.pc = "failed",
                             !.raised = Some(Exception("binascii.Error", -1))]]
    /\ UNCHANGED <<sessionFile, now, run>>

\* generate updates its session dict and saves it (lines 363-374).
Save(p) ==
    /\ procs[p].pc = "written"
    /\ LET me == procs[p]
           session2 == update_session(me.session, me.prompt, me.alias,
                                      me.input, me.path[1], now)
       IN  sessionFile' = persist(sessionFile, session2, TRUE)
    /\ procs' = [procs EXCEPT ![p] = [@ EXCEPT !.pc = "done"]]
    /\ UNCHANGED <<files, now, run>>

Loads == \E p \in Procs : Load(p)
Sends == \E p \in Procs : Send(p)
Names == \E p \in Procs : Name(p)
Writes == \E p \in Procs : Write(p)
Saves == \E p \in Procs : Save(p)

NextConcurrent ==
    \/ Loads
    \/ Sends
    \/ Names
    \/ Writes
    \/ Saves
    \/ Tick

SpecConcurrent == Init /\ [][NextConcurrent]_vars

----------------------------------------------------------------------------
\* The session store between the commands: what load_session returns is
\* handed to save_session as it is.

\* save_session(load_session()) (lines 95-105).
SaveLoaded ==
    /\ run = None
    /\ sessionFile' = save_session(load_session(sessionFile))
    /\ run' = Some(Run("save(load())", <<>>, None, None, None, None,
                       sessionFile, None, None, None, None, None))
    /\ UNCHANGED <<files, now, procs>>

NextStore ==
    \/ Next
    \/ SaveLoaded

SpecStore == Init /\ [][NextStore]_vars

----------------------------------------------------------------------------
\* save_image on its own: it is called one call after the other, with every
\* payload, into either directory, while the clock goes on.

\* The directories save_image writes to.
SaveDirs == {DefaultOutputDir} \cup { ResolveDir(d) : d \in ExplicitDirs }

\* What is seen of a call of save_image: its arguments, the files before it,
\* and the exception it raised or the path it returned.
SaveCall(base64_data, output_dir, fs_outcome, before, raised, path) ==
    [cmd |-> "save_image", base64_data |-> base64_data,
     output_dir |-> output_dir, fs_outcome |-> fs_outcome, before |-> before,
     raised |-> raised, path |-> path]

\* save_image is called (lines 128-158).
CallSaveImage ==
    /\ run = None
    /\ Cardinality(GeneratedImages) < MaxSaves
    /\ \E payload \in Payloads, output_dir \in SaveDirs,
          fs_outcome \in FsOutcomes :
          LET saved == save_image(Some(payload), output_dir, files, now,
                                  fs_outcome)
          IN  /\ files' = saved.files
              /\ run' = Some(SaveCall(Some(payload), output_dir, fs_outcome,
                                      files, saved.raised, saved.path))
    /\ UNCHANGED <<sessionFile, now, procs>>

NextSaveImage ==
    \/ CallSaveImage
    \/ ShellPrompt
    \/ Tick

SpecSaveImage == Init /\ [][NextSaveImage]_vars

----------------------------------------------------------------------------
\* The first command of a session, with every prompt of the model and every
\* setting of the flags.

\* Every setting of --transparent, --fast and --image-size.
AllFlagArgs ==
    { [transparent |-> t, fast |-> f, image_size |-> z] :
        t \in BOOLEAN, f \in BOOLEAN, z \in {None, Some("4K")} }

\* -m of the first command: absent (auto), or an alias of MODELS.
FirstModelArgs == {None, Some("gpt-image-mini")}

\* main, command generate (lines 438-449), before any image is written.
FirstGenerate ==
    /\ run = None
    /\ GeneratedImages = {}
    /\ \E prompt \in PromptTexts, model_alias \in FirstModelArgs,
          flags \in AllFlagArgs :
          Invoke("generate", prompt, model_alias, None, None, flags)

\* main, command edit (lines 451-460), before any image is written.
FirstEdit ==
    /\ run = None
    /\ GeneratedImages = {}
    /\ \E prompt \in PromptTexts, model_alias \in FirstModelArgs,
          flags \in {f \in AllFlagArgs : f.image_size = None} :
          Invoke("edit", prompt, model_alias, Some(UserImage), None, flags)

NextFirst ==
    \/ FirstGenerate
    \/ FirstEdit
    \/ ShellPrompt

SpecFirst == Init /\ [][NextFirst]_vars

----------------------------------------------------------------------------
\* select_model on its own: it is called with every prompt of the model and
\* every setting of its flags.

\* What is seen of a call of select_model: its arguments and its value.
SelectCall(prompt, transparent, high_res, fast, text_heavy, value) ==
    [cmd |-> "select_model", prompt |-> prompt, transparent |-> transparent,
     high_res |-> high_res, fast |-> fast, text_heavy |-> text_heavy,
     value |-> value]

\* select_model is called (lines 51-92).
CallSelectModel ==
    /\ run = None
    /\ \E prompt \in PromptTexts, transparent \in BOOLEAN, high_res \in BOOLEAN,
          fast \in BOOLEAN, text_heavy \in BOOLEAN :
          run' = Some(SelectCall(prompt, transparent, high_res, fast, text_heavy,
                                 select_model(prompt, transparent, high_res,
                                              fast, text_heavy)))
    /\ UNCHANGED <<sessionFile, files, now, procs>>

NextSelect ==
    \/ CallSelectModel
    \/ ShellPrompt

SpecSelect == Init /\ [][NextSelect]_vars

----------------------------------------------------------------------------
\* Properties of the commands

\* The command that has just run is a call of generate (generate or edit).
RanGenerate == run /= None /\ run[1].cmd \in {"generate", "edit"}

\* The session a command found, and the session it leaves.
SessionBefore == load_session(run[1].before)
SessionAfter == load_session(sessionFile)

\* a is a prefix of b.
IsPrefix(a, b) == Len(a) <= Len(b) /\ SubSeq(b, 1, Len(a)) = a

\* C1: a call of generate that finds no session file, is given no output
\* directory and returns, returns a path in <cwd>/generated-images, and the
\* session file then holds that path as current_image and a history of
\* exactly one record, whose prompt is the prompt of the call.
C1_FirstGeneration ==
    (/\ RanGenerate
     /\ run[1].before = None
     /\ run[1].output_dir = None
     /\ run[1].raised = None)
    => /\ run[1].value /= None
       /\ run[1].value[1].dir = Cwd \o <<"generated-images">>
       /\ sessionFile /= None
       /\ SessionAfter.current_image = run[1].value
       /\ Len(SessionAfter.history) = 1
       /\ SessionAfter.history[1].prompt = run[1].prompt

\* C1 happens: the first generate of "a red circle" has returned.
C1_Witness ==
    /\ RanGenerate
    /\ run[1].cmd = "generate"
    /\ run[1].before = None
    /\ run[1].output_dir = None
    /\ run[1].raised = None
    /\ run[1].prompt = "a red circle"
    /\ run[1].call /= None
    /\ run[1].call[1].response_attempt >= 0

\* C2: a call of generate that raises, at whatever step, leaves the session
\* file as it found it: there or not, and with the same text.
C2_FailureKeepsSession ==
    (RanGenerate /\ run[1].raised /= None) => sessionFile = run[1].before

\* C2 happens: with a session file there, a call given an output directory
\* other than the session's has raised after the third failed post.
C2_Witness ==
    /\ RanGenerate
    /\ run[1].raised /= None
    /\ run[1].raised[1].attempt = MAX_RETRIES - 1
    /\ run[1].before /= None
    /\ run[1].output_dir /= None
    /\ SessionBefore.output_dir /= Some(ResolveDir(run[1].output_dir[1]))

\* C3: a call of generate with an alias that MODELS does not have raises the
\* error that lists the aliases of MODELS, calls no adapter, and leaves the
\* session file as it found it.
C3_UnknownAlias ==
    (/\ RanGenerate
     /\ run[1].model_alias /= None
     /\ run[1].model_alias[1] \notin DOMAIN MODELS \cup {"auto"})
    => /\ run[1].raised /= None
       /\ run[1].raised[1].type = "ValueError: Unknown model"
       /\ run[1].raised[1].listed =
             {"nano-banana", "nano-banana-pro", "gpt-image", "gpt-image-1.5",
              "gpt-image-mini"}
       /\ run[1].call = None
       /\ run[1].value = None
       /\ sessionFile = run[1].before

\* C3 happens: generate was called with the alias "foo" while the session
\* file held a history.
C3_Witness ==
    /\ RanGenerate
    /\ run[1].model_alias = Some("foo")
    /\ run[1].before /= None
    /\ SessionBefore.history /= <<>>

\* The provider call of the command has failed: the retry loop has raised
\* after its last post.
ProviderFailed ==
    /\ run[1].call /= None
    /\ run[1].raised /= None
    /\ run[1].raised[1].type \in {"ConnectionError", "HTTPError"}

\* C4, as claimed: after a call of generate with the output directory D whose
\* provider call fails, the session file holds D as output_dir.
C4_Claimed ==
    (RanGenerate /\ run[1].output_dir /= None /\ ProviderFailed)
    => SessionAfter.output_dir = Some(ResolveDir(run[1].output_dir[1]))

\* C4, amended: the output directory given to generate is written into the
\* session dict only, which is saved at the end of a generation and not
\* before.  After a call with the output directory D whose provider call
\* fails, the session file holds the output_dir it held before the call (none
\* when there was no file); after a call with D that returns, it holds D.
C4_DirSavedOnSuccessOnly ==
    (RanGenerate /\ run[1].output_dir /= None)
    => /\ ProviderFailed =>
             /\ sessionFile = run[1].before
             /\ SessionAfter.output_dir = SessionBefore.output_dir
       /\ run[1].raised = None =>
             SessionAfter.output_dir = Some(ResolveDir(run[1].output_dir[1]))

\* C4 happens: a call with the output directory D, in a session that
\* remembers another directory, has failed at the provider.
C4_Witness ==
    /\ RanGenerate
    /\ run[1].output_dir /= None
    /\ ProviderFailed
    /\ run[1].call[1].attempts = MAX_RETRIES
    /\ SessionBefore.output_dir /= None
    /\ SessionBefore.output_dir /= Some(ResolveDir(run[1].output_dir[1]))

\* C5, as claimed: the generate command hands no input image to the adapter,
\* whatever the session's current_image is.
C5_Claimed ==
    (run /= None /\ run[1].cmd = "generate" /\ run[1].call /= None)
    => run[1].call[1].input_image = None

\* C6: the edit command hands the adapter the image of -i when there is one,
\* and the session's current_image otherwise (none when the session has
\* none); the record appended when the call returns has that image as input.
C6_EditInput ==
    (run /= None /\ run[1].cmd = "edit" /\ run[1].call /= None)
    => /\ run[1].call[1].input_image =
             IF run[1].input_image /= None THEN run[1].input_image
             ELSE SessionBefore.current_image
       /\ run[1].raised = None =>
             /\ SessionAfter.history /= <<>>
             /\ SessionAfter.history[Len(SessionAfter.history)].input =
                   run[1].call[1].input_image

\* C6 happens: an edit without -i has returned in a session with a current
\* image.
C6_Witness ==
    /\ run /= None
    /\ run[1].cmd = "edit"
    /\ run[1].input_image = None
    /\ SessionBefore.current_image /= None
    /\ run[1].raised = None
    /\ run[1].call /= None
    /\ run[1].call[1].input_image = SessionBefore.current_image

\* C10: without a clear, the history only grows at its end.  After a
\* generate, an edit or a set-dir, the history in the session file starts
\* with the history that was there before; a call of generate that returns
\* adds exactly one record, the last, which is the record of that call; a call
\* that raises and a set-dir leave the history as it was.
C10_HistoryAppendOnly ==
    (run /= None /\ run[1].cmd \in {"generate", "edit", "set-dir"})
    => LET h0 == SessionBefore.history
           h1 == SessionAfter.history
       IN  /\ IsPrefix(h0, h1)
           /\ (RanGenerate /\ run[1].raised = None) =>
                 /\ Len(h1) = Len(h0) + 1
                 /\ h1[Len(h1)].output = run[1].value[1]
                 /\ h1[Len(h1)].prompt = run[1].prompt
           /\ (RanGenerate /\ run[1].raised /= None) => h1 = h0
           /\ run[1].cmd = "set-dir" => h1 = h0

\* C10 happens: a call of generate has returned in a session whose history
\* had a record already.
C10_Witness ==
    /\ RanGenerate
    /\ run[1].raised = None
    /\ SessionBefore.history /= <<>>
    /\ Len(SessionAfter.history) = 2

\* The command that has just run is a call of generate with --fast and no
\* -m, which has posted a request to the provider.
RanFastAuto ==
    /\ RanGenerate
    /\ run[1].flags[1].fast
    /\ run[1].model_alias = None
    /\ run[1].call /= None
    /\ run[1].call[1].posts > 0

RanSaveLoaded == run /= None /\ run[1].cmd = "save(load())"

\* C13, as claimed: save_session(load_session()) leaves the session file as
\* it was, there or not and with the same text, in every state.
C13_Claimed == RanSaveLoaded => sessionFile = run[1].before

\* C13, amended: when there is a session file, save_session(load_session())
\* leaves its text as it was.  When there is none, it creates the file, with
\* the text of the default session (no current image, an empty history, no
\* output directory); a second round trip then changes nothing.
C13_RoundTrip ==
    RanSaveLoaded
    => /\ run[1].before /= None => sessionFile = run[1].before
       /\ run[1].before = None =>
             /\ sessionFile /= None
             /\ sessionFile = Some(json_dumps(Session(None, <<>>, None)))
       /\ save_session(load_session(sessionFile)) = sessionFile

\* C13 happens: the round trip was made on a session file with two records
\* in its history and an output directory.
C13_Witness ==
    /\ RanSaveLoaded
    /\ run[1].before /= None
    /\ Len(SessionBefore.history) = 2
    /\ SessionBefore.output_dir /= None
    /\ SessionBefore.current_image /= None

\* C14: clear succeeds whether there is a session file or not and leaves
\* none; a second clear changes nothing; and load_session then returns the
\* default session: no current image, an empty history, no output directory.
C14_ClearIdempotent ==
    (run /= None /\ run[1].cmd = "clear")
    => /\ run[1].raised = None
       /\ sessionFile = None
       /\ clear_session(sessionFile) = sessionFile
       /\ clear_session(clear_session(run[1].before)) = clear_session(run[1].before)
       /\ SessionAfter.current_image = None
       /\ SessionAfter.history = <<>>
       /\ SessionAfter.output_dir = None

\* C14 happens: clear has run on a session file with a history and an output
\* directory.
C14_Witness ==
    /\ run /= None
    /\ run[1].cmd = "clear"
    /\ run[1].before /= None
    /\ SessionBefore.history /= <<>>
    /\ SessionBefore.output_dir /= None
    /\ sessionFile = None

\* The command that has just run is set-dir.
RanSetDir == run /= None /\ run[1].cmd = "set-dir"

\* C17: the output directory is the one of -o, else the one the session
\* remembers, else <cwd>/generated-images.  set-dir D changes output_dir in
\* the session file and nothing else: current_image and history stay, no
\* adapter is called, no image is written.  A call of generate that returns
\* has written its image under the directory of -o if given and under the
\* session's directory if not, and leaves that directory in the session
\* file; one that raises leaves the session's directory as it was.  So the
\* directory of set-dir D, or of a generate -o D that returned, is where
\* the later calls without -o write, until -o, set-dir or clear comes.
C17_OutputDirPrecedence ==
    /\ [](RanSetDir =>
            /\ run[1].raised = None
            /\ run[1].call = None
            /\ run[1].value = None
            /\ SessionAfter.output_dir = Some(ResolveDir(run[1].output_dir[1]))
            /\ SessionAfter.current_image = SessionBefore.current_image
            /\ SessionAfter.history = SessionBefore.history)
    /\ []((RanGenerate /\ run[1].raised = None) =>
            /\ run[1].value[1].dir =
                  IF run[1].output_dir /= None
                  THEN ResolveDir(run[1].output_dir[1])
                  ELSE IF SessionBefore.output_dir /= None
                  THEN SessionBefore.output_dir[1]
                  ELSE Cwd \o <<"generated-images">>
            /\ run[1].value[1] \in files
            /\ SessionAfter.output_dir = Some(run[1].value[1].dir))
    /\ []((RanGenerate /\ run[1].raised /= None) =>
            SessionAfter.output_dir = SessionBefore.output_dir)
    /\ [][(run = None /\ run' /= None /\ run'[1].cmd = "set-dir")
            => files' = files]_vars

\* C17 happens: after set-dir out in a session that remembered
\* <cwd>/generated-images, a generate without -o has written its image
\* under <cwd>/out.
C17_Witness ==
    /\ RanGenerate
    /\ run[1].raised = None
    /\ run[1].output_dir = None
    /\ SessionBefore.history /= <<>>
    /\ SessionBefore.history[1].output.dir = Cwd \o <<"generated-images">>
    /\ SessionBefore.output_dir = Some(Cwd \o <<"out">>)
    /\ run[1].value[1].dir = Cwd \o <<"out">>

\* C19: in the session the file holds (the default session when there is no
\* file), after generate, edit, set-dir and clear in any order, returning or
\* raising: current_image is unset exactly when the history is empty, and
\* otherwise it is the output of the last record of the history.
C19_CurrentIsLastOutput ==
    LET session == load_session(sessionFile)
        history == session.history
    IN  /\ session.current_image = None <=> history = <<>>
        /\ history /= <<>> =>
              session.current_image = Some(history[Len(history)].output)

\* C19 happens: after two generations that returned, the current image is
\* the output of the second record and not of the first.
C19_Witness ==
    /\ RanGenerate
    /\ run[1].raised = None
    /\ Len(SessionAfter.history) = 2
    /\ SessionAfter.history[1].output /= SessionAfter.history[2].output
    /\ SessionAfter.current_image = Some(SessionAfter.history[2].output)
    /\ SessionBefore.current_image = Some(SessionAfter.history[1].output)

----------------------------------------------------------------------------
\* Properties of the adapters

\* An adapter has just been called on its own.
RanAdapter ==
    run /= None /\ run[1].cmd \in {"generate_openrouter", "generate_openai"}

\* The adapter had its key and its input image, if any, could be read, so
\* that every pass of its retry loop sent its request.
Sending ==
    /\ run[1].env[1].key
    /\ run[1].input_image /= None => run[1].input_image[1] \in files

\* The pass of the retry loop in which the first post succeeds, 0 if none.
FirstOk ==
    LET o == run[1].env[1].outcomes
    IN  IF \E k \in DOMAIN o : o[k] = "ok"
        THEN CHOOSE k \in DOMAIN o :
                o[k] = "ok" /\ \A i \in 1..(k - 1) : o[i] /= "ok"
        ELSE 0

\* What is read from the body of the success response.
Extracted ==
    IF run[1].cmd = "generate_openrouter"
    THEN openrouter_extract(run[1].env[1].body)
    ELSE IF run[1].env[1].body.has_data
    THEN [raised |-> None, value |-> Some(run[1].env[1].body.b64_json)]
    ELSE [raised |-> Some(Exception("KeyError", -1)), value |-> None]

\* C7: in both adapters, when every post fails, with a transport failure or
\* a non-success status, exactly 3 = MAX_RETRIES posts are made, the loop
\* sleeps after the first and the second only, and the error raised is the
\* one of the third post.
C7_RetriesExhausted ==
    (RanAdapter /\ Sending /\ FirstOk = 0)
    => /\ MAX_RETRIES = 3
       /\ run[1].call[1].attempts = 3
       /\ run[1].call[1].posts = 3
       /\ Len(run[1].call[1].waits) = 2
       /\ run[1].raised =
             Some(Exception(run[1].env[1].outcomes[3], 2))
       /\ run[1].payload = None

\* C7 happens: the image-API adapter, editing an image, has met a transport
\* failure twice and then a non-success status.
C7_Witness ==
    /\ RanAdapter
    /\ run[1].cmd = "generate_openai"
    /\ run[1].input_image = Some(UserImage)
    /\ run[1].env[1].key
    /\ run[1].env[1].outcomes = <<"ConnectionError", "ConnectionError", "HTTPError">>
    /\ run[1].raised /= None

\* C8: in both adapters, when the post first succeeds in pass k, exactly k
\* posts are made, the sleeps between them are RETRY_BACKOFF_BASE ** 0,
\* RETRY_BACKOFF_BASE ** 1, ... in that order (1 s then 2 s for k = 3), and
\* the result is read from the response of pass k.
C8_SuccessStopsLoop ==
    (RanAdapter /\ Sending /\ FirstOk > 0)
    => /\ run[1].call[1].attempts = FirstOk
       /\ run[1].call[1].posts = FirstOk
       /\ Len(run[1].call[1].waits) = FirstOk - 1
       /\ \A i \in 1..(FirstOk - 1) :
             run[1].call[1].waits[i] = RETRY_BACKOFF_BASE ^ (i - 1)
       /\ FirstOk = 3 => run[1].call[1].waits = <<1, 2>>
       /\ run[1].call[1].response_attempt = FirstOk - 1
       /\ run[1].raised = Extracted.raised
       /\ run[1].payload = Extracted.value

\* C8 happens: the chat adapter has failed twice, succeeded at the third
\* post and returned the image of that response.
C8_Witness ==
    /\ RanAdapter
    /\ run[1].cmd = "generate_openrouter"
    /\ run[1].env[1].key
    /\ run[1].env[1].outcomes = <<"HTTPError", "ConnectionError", "ok">>
    /\ run[1].call[1].waits = <<1, 2>>
    /\ run[1].raised = None
    /\ run[1].payload = Some(JpegDataUrl)

\* An exception was raised inside the retry loop.
RaisedInLoop == run[1].raised /= None /\ run[1].raised[1].attempt >= 0

\* C9, as claimed: whatever exception a pass of the retry loop raises while
\* sending, opening the input image included, the send is tried again until
\* MAX_RETRIES passes are made.
C9_Claimed ==
    (RanAdapter /\ RaisedInLoop) => run[1].call[1].attempts = MAX_RETRIES

\* C9, amended: the retry loop tries again after a
\* requests.exceptions.RequestException only (a transport failure or a
\* non-success status), until MAX_RETRIES posts are made.  Any other
\* exception raised in the loop goes to the caller from the pass that raised
\* it: in the edit mode of the image-API adapter, the OSError of opening the
\* input image ends the call in the first pass, before any post and sleep.
C9_OnlyRequestExceptionsRetried ==
    (RanAdapter /\ RaisedInLoop)
    => IF run[1].raised[1].type \in {"ConnectionError", "HTTPError"}
       THEN /\ run[1].call[1].attempts = MAX_RETRIES
            /\ run[1].call[1].posts = MAX_RETRIES
       ELSE /\ run[1].cmd = "generate_openai"
            /\ run[1].raised[1].type = "FileNotFoundError"
            /\ run[1].call[1].attempts = 1
            /\ run[1].call[1].posts = 0
            /\ run[1].call[1].waits = <<>>

\* C9 happens: the image-API adapter was to edit an image that is not there.
C9_Witness ==
    /\ RanAdapter
    /\ run[1].cmd = "generate_openai"
    /\ run[1].env[1].key
    /\ run[1].input_image = Some(MissingImage)
    /\ RaisedInLoop
    /\ run[1].raised[1].type = "FileNotFoundError"

\* C18, as claimed: on a success response with a message, the chat adapter
\* returns an image payload, or raises the error "No image in response" that
\* lists the keys of the message; it never returns without a payload.
C18_Claimed ==
    (/\ RanAdapter
     /\ run[1].cmd = "generate_openrouter"
     /\ Sending
     /\ FirstOk > 0
     /\ run[1].env[1].body.has_message)
    => \/ run[1].raised = None /\ run[1].payload /= None
       \/ /\ run[1].raised /= None
          /\ run[1].raised[1].type = "ValueError: No image in response"
          /\ run[1].raised[1].listed = MessageKeys(run[1].env[1].body)
          /\ run[1].payload = None

----------------------------------------------------------------------------
\* Properties of select_model

\* select_model has just been called on its own.
RanSelect == run /= None /\ run[1].cmd = "select_model"

\* A rule of select_model matches the call: its flag is set, or the prompt
\* in lower case contains one of its keywords.
Matches(flag, keywords) ==
    flag \/ AnyKeyword(Lower(Chars(run[1].prompt)), keywords)

\* C11: select_model takes the first rule that matches, in the order
\* transparency, text, draft, high resolution, default.  Transparency (flag
\* or keyword) gives gpt-image-1.5 whatever the other flags and keywords are,
\* as for "Transparent sketch", which also has a draft keyword, and for
\* --transparent with a prompt that has no keyword.
C11_FirstMatchWins ==
    RanSelect
    => LET r == run[1]
           transparency == Matches(r.transparent, transparency_keywords)
           text == Matches(r.text_heavy, text_keywords)
           draft == Matches(r.fast, fast_keywords)
           highres == Matches(r.high_res, highres_keywords)
       IN  /\ transparency => r.value = "gpt-image-1.5"
           /\ (~transparency /\ text) => r.value = "gpt-image-1.5"
           /\ (~transparency /\ ~text /\ draft) => r.value = "nano-banana"
           /\ (~transparency /\ ~text /\ ~draft /\ highres) =>
                 r.value = "nano-banana-pro"
           /\ (~transparency /\ ~text /\ ~draft /\ ~highres) =>
                 r.value = "nano-banana-pro"
           /\ r.prompt = "Transparent sketch" => r.value = "gpt-image-1.5"
           /\ (r.prompt = "a red circle" /\ r.transparent) =>
                 r.value = "gpt-image-1.5"
           /\ (r.prompt = "rough draft" /\ ~r.transparent /\ ~r.text_heavy) =>
                 r.value = "nano-banana"
           /\ (r.prompt = "4K poster" /\ ~r.transparent /\ ~r.text_heavy
                  /\ r.fast) => r.value = "nano-banana"

\* C11 happens: select_model was called with "Transparent sketch" and the
\* draft and high-resolution flags set, and with no transparency flag.
C11_Witness ==
    /\ RanSelect
    /\ run[1].prompt = "Transparent sketch"
    /\ ~run[1].transparent
    /\ run[1].fast
    /\ run[1].high_res
    /\ run[1].value = "gpt-image-1.5"

----------------------------------------------------------------------------
\* Properties of save_image

\* save_image has just been called on its own.
RanSaveImage == run /= None /\ run[1].cmd = "save_image"

\* The number the three digits of a file's counter stand for.
CounterValue(f) == 100 * f.counter[1] + 10 * f.counter[2] + f.counter[3]

\* The files of fs that differ from f in the counter at most.
Siblings(fs, f) == Glob(fs, f.dir, f.prefix, f.timestamp, f.ext)

\* C15: calls of save_image one after the other, into one directory, within
\* one second and with one extension, give file names that differ in the
\* three-digit counter only, which is 001, 002, ... in the order of the
\* calls: the path a call returns is the path of no file that was there, its
\* counter is one more than the number of its siblings there, whose counters
\* are 001 up to that number, and every file that was there is still there.
C15_CounterInCallOrder ==
    /\ \A f \in GeneratedImages :
          /\ Len(f.counter) = 3
          /\ CounterValue(f) \in 1..Cardinality(Siblings(files, f))
    /\ (RanSaveImage /\ run[1].raised = None)
       => LET path == run[1].path[1]
              earlier == Siblings(run[1].before, path)
          IN  /\ path \notin run[1].before
              /\ CounterValue(path) = Cardinality(earlier) + 1
              /\ { CounterValue(f) : f \in earlier } = 1..Cardinality(earlier)
              /\ files = run[1].before \cup {path}

\* C15 happens: the third call within one second into one directory has
\* returned a jpg file with the counter 003.
C15_Witness ==
    /\ RanSaveImage
    /\ run[1].raised = None
    /\ run[1].path[1].ext = "jpg"
    /\ run[1].path[1].counter = <<0, 0, 3>>
    /\ Cardinality(Siblings(files, run[1].path[1])) = 3

----------------------------------------------------------------------------
\* Properties of two invocations side by side

\* Invocation p has returned: it has written its image and saved its session.
Done(p) == procs[p].pc = "done"

\* C16: the session file is read and written without a lock.  What an
\* invocation saves is the history it loaded with its own record appended,
\* whatever the session file holds by then: a record another invocation has
\* saved since the load is no longer in the file, though both invocations
\* return without an error.
C16_LastSaveWins ==
    [][\A p \in Procs :
         (procs[p].pc = "written" /\ procs'[p].pc = "done")
         => LET loaded == procs[p].loaded[1].history
                saved == load_session(sessionFile').history
            IN  /\ Len(saved) = Len(loaded) + 1
                /\ IsPrefix(loaded, saved)
                /\ saved[Len(saved)].output = procs[p].path[1]
                /\ saved[Len(saved)].prompt = procs[p].prompt
                /\ procs'[p].raised = None]_vars

\* C16 happens: two invocations with different prompts have both returned,
\* their two images are there, and the history in the session file has the
\* record of one of them only.
C16_Witness ==
    /\ \A p \in Procs : Done(p) /\ procs[p].raised = None
    /\ procs[1].prompt /= procs[2].prompt
    /\ procs[1].path /= procs[2].path
    /\ \A p \in Procs : procs[p].path[1] \in files
    /\ Len(SessionAfter.history) = 1

\* C20, as claimed: two invocations side by side that write into one
\* directory, within one second and with one extension, never pick the same
\* file name.
C20_Claimed ==
    \A p \in Procs, q \in Procs :
        (/\ p /= q
         /\ procs[p].pc \in {"written", "done"}
         /\ procs[q].pc \in {"written", "done"})
        => procs[p].path /= procs[q].path

====
